---- MODULE Spec2Model ----
(***************************************************************************)
(* Model of mmworkbench/components/_elasticsearch_helpers.py: the index    *)
(* administration helpers (does_index_exist, get_field_names,              *)
(* create_index, delete_index) and the bulk loader (load_index), run by    *)
(* callers against one Elasticsearch cluster.                              *)
(*                                                                         *)
(* Every call of the Elasticsearch client is one step of the model, so a   *)
(* helper is a short sequence of steps: the cluster may become             *)
(* unreachable, and other callers may act, between two client calls.       *)
(* The cluster is the environment: its state is the set of indices (with   *)
(* their mapping and documents), the default index template and whether    *)
(* it is reachable.  A client call on an unreachable cluster raises the    *)
(* client's ConnectionError; streaming_bulk yields one (okay, result)      *)
(* pair per document of a chunk, okay being false for a document the       *)
(* engine rejects, which is what the loop of load_index handles.           *)
(***************************************************************************)
EXTENDS Integers, Sequences, FiniteSets, TLC

VARIABLES up, template, indices, call, budget

vars == <<up, template, indices, call, budget>>
remote == <<template, indices>>

----------------------------------------------------------------------------
(* Bounds of the model *)

\* calls made in one behaviour of Spec
MaxCalls == 2
\* calls made in one behaviour of SpecLoad
MaxLoadCalls == 1
\* longest short document sequence passed to load_index
MaxDocs == 2
\* documents beyond one full chunk in the long document sequences of SpecLoad
MaxOver == 1
\* longest app or index name in SpecNames
MaxNameLen == 2
\* calls the two callers of SpecRace make together
MaxRaceCalls == 2
\* calls the caller of SpecSeq makes
MaxSeqCalls == 2

(* Program constants *)

\* chunk_size=50 in the streaming_bulk call
CHUNK_SIZE == 50

Callers == {1, 2}
Apps == {<<"a">>, <<"b">>}
IndexNames == {<<"x">>, <<"y">>}

\* index mappings: the body of indices.create, reduced to the key set of
\* body['mappings']['document']['properties']
Mapping(props) == [properties |-> props]
Mappings == {Mapping({"f1"}), Mapping({"f1", "f2"})}
NoMapping == Mapping({})

Min(a, b) == IF a < b THEN a ELSE b

----------------------------------------------------------------------------
(* Naming *)

\* the two names put together without the separator
ScopedNameNoSeparator(app_name, index_name) == app_name \o index_name

get_scoped_index_name(app_name, index_name) == app_name \o <<"$">> \o index_name

ScopedNames == {get_scoped_index_name(a, i) : a \in Apps, i \in IndexNames}

----------------------------------------------------------------------------
(* Documents: an identifier and whether the engine will accept it *)

Doc(i, good) == [id |-> i, wellformed |-> good]

\* the sequence of n documents whose malformed ones are at the positions bad
DocSeq(n, bad) == [i \in 1..n |-> Doc(i, i \notin bad)]

\* every sequence of at most n documents, any of them malformed
ShortDocs(max) == UNION {{DocSeq(n, bad) : bad \in SUBSET (1..n)} : n \in 0..max}

\* around the chunk boundary: one full chunk, or a full chunk and some more,
\* with a malformed document first or right after the first chunk
LongDocs ==
    UNION {{DocSeq(n, bad) : bad \in SUBSET ({1, CHUNK_SIZE + 1} \cap (1..n))}
           : n \in {CHUNK_SIZE, CHUNK_SIZE + MaxOver}}

\* the document sequences callers pass to load_index
LoadDocs == ShortDocs(MaxDocs) \cup LongDocs

----------------------------------------------------------------------------
(* The cluster *)

NoIndex == [exists |-> FALSE, mapping |-> NoMapping, docs |-> {}]
Index(mapping, docs) == [exists |-> TRUE, mapping |-> mapping, docs |-> docs]

\* indices.exists(index=s)
EsExists(s) == indices[s].exists

\* an index created without the body
EsCreateWithoutBody(s, mapping) == [indices EXCEPT ![s] = Index(NoMapping, {})]

\* indices.create(s, body=mapping) on an absent index
EsCreate(s, mapping) == [indices EXCEPT ![s] = Index(mapping, {})]

\* a deletion that takes every index along
EsDeleteEverything(s) == [t \in ScopedNames |-> NoIndex]

\* indices.delete(s) on an existing index
EsDelete(s) == [indices EXCEPT ![s] = NoIndex]

\* the engine's verdict on one bulk action
EsAccepts(doc) == doc.wellformed

\* one bulk request: the accepted documents of the chunk are indexed; the
\* engine creates a missing index itself, with a mapping of its own (the
\* dynamic mapping), before indexing into it
EsBulk(s, chunk) ==
    LET accepted == {chunk[k].id : k \in {j \in 1..Len(chunk) : EsAccepts(chunk[j])}}
        base == IF indices[s].exists THEN indices[s] ELSE Index(NoMapping, {})
    IN  [indices EXCEPT ![s] = [base EXCEPT !.docs = @ \cup accepted]]

\* the per-document results streaming_bulk yields for a chunk, in order
BulkResults(chunk) == [k \in 1..Len(chunk) |-> [id |-> chunk[k].id, okay |-> EsAccepts(chunk[k])]]

----------------------------------------------------------------------------
(* Calls *)

None == [tag |-> "None"]
IntVal(n) == [tag |-> "int", int |-> n]
Bool(b) == [tag |-> "bool", bool |-> b]
KeySet(s) == [tag |-> "keys", keys |-> s]

Snapshot == [template |-> template, indices |-> indices]

\* A string or None, as an argument of create_es_client or a variable of
\* the environment holds it
Absent == [some |-> FALSE, s |-> ""]
Str(s) == [some |-> TRUE, s |-> s]

\* host, user and password, as arguments or as MM_ES_HOST, MM_ES_USERNAME
\* and MM_ES_PASSWORD of the environment
NoSettings == [host |-> Absent, user |-> Absent, pass |-> Absent]

\* A call: its arguments (op, app, index, mapping, docs), where it stands
\* (pc), the locals of load_index (count; consumed: documents taken from
\* docs; pending: results of the current chunk not yet yielded), and how it
\* ended (outcome, hosts, retval).  The rest records what happened: nfail
\* (failure lines logged), processed (results handled), sizes (the sizes of
\* the chunks sent), logged (the count of the final log line, -1 if none),
\* logs, issued (the changing requests sent to the engine), failedAt (the pc
\* of the client call that could not connect), pre (the cluster when the
\* call started).  A create_es_client call has the args it is given and
\* the environ it reads.

NoCall ==
    [op |-> "none", app |-> <<>>, index |-> <<>>, mapping |-> NoMapping, docs |-> <<>>,
     pc |-> "idle", count |-> 0, nfail |-> 0, consumed |-> 0, processed |-> 0,
     sizes |-> <<>>, pending |-> <<>>, outcome |-> "none", hosts |-> FALSE,
     retval |-> None, logged |-> -1, logs |-> {}, issued |-> {}, failedAt |-> "none",
     pre |-> [template |-> FALSE, indices |-> [s \in ScopedNames |-> NoIndex]],
     after |-> [op |-> "none", mapping |-> NoMapping, existed |-> FALSE],
     args |-> NoSettings, environ |-> NoSettings]

Scoped(r) == get_scoped_index_name(r.app, r.index)

\* for a does_index_exist call: the call this caller made just before it, if
\* that call returned and was about the same (app, index)
Preceding(r, op, app, index) ==
    IF op = "does_index_exist" /\ r.pc = "done" /\ r.outcome = "returned"
       /\ r.app = app /\ r.index = index
    THEN [op |-> r.op, mapping |-> r.mapping, existed |-> r.pre.indices[Scoped(r)].exists]
    ELSE NoCall.after

\* a call starts: the client and the scoped name are set up
Begin(c, op, app, index, mapping, docs, pc0) ==
    /\ call[c].pc \in {"idle", "done"}
    /\ budget > 0
    /\ budget' = budget - 1
    /\ call' = [call EXCEPT ![c] =
                  [NoCall EXCEPT !.op = op, !.app = app, !.index = index,
                                 !.mapping = mapping, !.docs = docs, !.pc = pc0,
                                 !.pre = Snapshot,
                                 !.after = Preceding(call[c], op, app, index)]]
    /\ UNCHANGED <<up, template, indices>>

\* return value v to the caller
Return(r, v) == [r EXCEPT !.pc = "done", !.outcome = "returned", !.retval = v]

\* an exception leaves the helper
Raise(r, exc) == [r EXCEPT !.pc = "done", !.outcome = exc]

\* the client's ConnectionError left uncaught
OnConnectionErrorUncaught(r, withHosts) ==
    [Raise(r, "ConnectionError") EXCEPT !.failedAt = r.pc]

\* the client call at r.pc raised ESConnectionError, which is caught: log,
\* raise KnowledgeBaseConnectionError; withHosts tells whether the error
\* carries es_client.transport.hosts
OnConnectionError(r, withHosts) ==
    [Raise(r, "KnowledgeBaseConnectionError") EXCEPT
        !.failedAt = r.pc, !.hosts = withHosts, !.logs = @ \cup {"Unable to connect"}]

\* es_client.cluster.health(request_timeout=connect_timeout), then on to pc `to`
HealthProbe(c, from, to, withHosts) ==
    /\ call[c].pc = from
    /\ call' = [call EXCEPT ![c] =
                  IF up THEN [@ EXCEPT !.pc = to] ELSE OnConnectionError(@, withHosts)]
    /\ UNCHANGED <<up, template, indices, budget>>

----------------------------------------------------------------------------
(* does_index_exist *)

does_index_exist(c, app, index) ==
    Begin(c, "does_index_exist", app, index, NoMapping, <<>>, "e_health")

ExistHealth(c) == HealthProbe(c, "e_health", "e_exists", FALSE)

ExistQuery(c) ==
    /\ call[c].pc = "e_exists"
    /\ call' = [call EXCEPT ![c] =
                  IF up THEN Return(@, Bool(EsExists(Scoped(@))))
                  ELSE OnConnectionError(@, FALSE)]
    /\ UNCHANGED <<up, template, indices, budget>>

----------------------------------------------------------------------------
(* get_field_names *)

get_field_names(c, app, index) ==
    Begin(c, "get_field_names", app, index, NoMapping, <<>>, "g_health")

FieldsHealth(c) == HealthProbe(c, "g_health", "g_get", FALSE)

\* a get_field_names that answers a missing index with no field names
FieldsGetIgnoringMissing(c) ==
    /\ call[c].pc = "g_get"
    /\ call' = [call EXCEPT ![c] =
                  IF ~up THEN OnConnectionError(@, FALSE)
                  ELSE IF ~EsExists(Scoped(@)) THEN Return(@, KeySet({}))
                  ELSE Return(@, KeySet(indices[Scoped(@)].mapping.properties))]
    /\ UNCHANGED <<up, template, indices, budget>>

\* indices.get raises NotFoundError for a missing index; it is not caught
FieldsGet(c) ==
    /\ call[c].pc = "g_get"
    /\ call' = [call EXCEPT ![c] =
                  IF ~up THEN OnConnectionError(@, FALSE)
                  ELSE IF ~EsExists(Scoped(@)) THEN Raise(@, "NotFoundError")
                  ELSE Return(@, KeySet(indices[Scoped(@)].mapping.properties))]
    /\ UNCHANGED <<up, template, indices, budget>>

----------------------------------------------------------------------------
(* create_index, called directly or from load_index *)

create_index(c, app, index, mapping) ==
    Begin(c, "create_index", app, index, mapping, <<>>, "c_health")

\* where create_index returns to: its caller, or the loop of load_index
CreateReturns(r) ==
    IF r.op = "load_index" THEN [r EXCEPT !.pc = "l_bulk"] ELSE Return(r, None)

CreateHealth(c) == HealthProbe(c, "c_health", "c_exists", TRUE)

\* a create_index that does not look whether the index exists
CreateExistsUnchecked(c) ==
    /\ call[c].pc = "c_exists"
    /\ call' = [call EXCEPT ![c] =
                  IF ~up THEN OnConnectionError(@, TRUE) ELSE [@ EXCEPT !.pc = "c_template"]]
    /\ UNCHANGED <<up, template, indices, budget>>

CreateExists(c) ==
    /\ call[c].pc = "c_exists"
    /\ call' = [call EXCEPT ![c] =
                  IF ~up THEN OnConnectionError(@, TRUE)
                  ELSE IF ~EsExists(Scoped(@)) THEN [@ EXCEPT !.pc = "c_template"]
                  ELSE CreateReturns([@ EXCEPT !.logs = @ \cup {"already exists"}])]
    /\ UNCHANGED <<up, template, indices, budget>>

\* a create_index that puts the template without looking for it
CreateExistsTemplateUnchecked(c) ==
    /\ call[c].pc = "c_template"
    /\ call' = [call EXCEPT ![c] =
                  IF ~up THEN OnConnectionError(@, TRUE) ELSE [@ EXCEPT !.pc = "c_put_template"]]
    /\ UNCHANGED <<up, template, indices, budget>>

CreateExistsTemplate(c) ==
    /\ call[c].pc = "c_template"
    /\ call' = [call EXCEPT ![c] =
                  IF ~up THEN OnConnectionError(@, TRUE)
                  ELSE IF ~template THEN [@ EXCEPT !.pc = "c_put_template"]
                  ELSE [@ EXCEPT !.pc = "c_create", !.logs = @ \cup {"Creating index"}]]
    /\ UNCHANGED <<up, template, indices, budget>>

\* a put_template that refuses to replace a template (create=True)
CreatePutTemplateCreateOnly(c) ==
    /\ call[c].pc = "c_put_template"
    /\ template' = TRUE
    /\ call' = [call EXCEPT ![c] =
                  IF ~up THEN OnConnectionError(@, TRUE)
                  ELSE IF template
                  THEN Raise([@ EXCEPT !.issued = @ \cup {"put_template"}], "RequestError")
                  ELSE [@ EXCEPT !.pc = "c_create", !.issued = @ \cup {"put_template"},
                                 !.logs = @ \cup {"Creating index"}]]
    /\ UNCHANGED <<up, indices, budget>>

\* indices.put_template stores the template, replacing one of that name
CreatePutTemplate(c) ==
    /\ call[c].pc = "c_put_template"
    /\ IF up
       THEN /\ template' = TRUE
            /\ call' = [call EXCEPT ![c] =
                          [@ EXCEPT !.pc = "c_create", !.issued = @ \cup {"put_template"},
                                    !.logs = @ \cup {"Creating index"}]]
       ELSE /\ template' = template
            /\ call' = [call EXCEPT ![c] = OnConnectionError(@, TRUE)]
    /\ UNCHANGED <<up, indices, budget>>

\* a create_index that takes the engine's refusal to create an index that
\* exists by now as success
CreateCreateSwallowing(c) ==
    /\ call[c].pc = "c_create"
    /\ IF ~up
       THEN /\ indices' = indices
            /\ call' = [call EXCEPT ![c] = OnConnectionError(@, TRUE)]
       ELSE /\ indices' = IF EsExists(Scoped(call[c])) THEN indices
                          ELSE EsCreate(Scoped(call[c]), call[c].mapping)
            /\ call' = [call EXCEPT ![c] =
                          CreateReturns([@ EXCEPT !.issued = @ \cup {"create"}])]
    /\ UNCHANGED <<up, template, budget>>

\* indices.create raises RequestError for an index that exists by now; it is
\* not caught
CreateCreate(c) ==
    /\ call[c].pc = "c_create"
    /\ IF ~up
       THEN /\ indices' = indices
            /\ call' = [call EXCEPT ![c] = OnConnectionError(@, TRUE)]
       ELSE IF EsExists(Scoped(call[c]))
       THEN /\ indices' = indices
            /\ call' = [call EXCEPT ![c] = Raise([@ EXCEPT !.issued = @ \cup {"create"}],
                                                 "RequestError")]
       ELSE /\ indices' = EsCreate(Scoped(call[c]), call[c].mapping)
            /\ call' = [call EXCEPT ![c] =
                          CreateReturns([@ EXCEPT !.issued = @ \cup {"create"}])]
    /\ UNCHANGED <<up, template, budget>>

----------------------------------------------------------------------------
(* delete_index *)

delete_index(c, app, index) ==
    Begin(c, "delete_index", app, index, NoMapping, <<>>, "d_health")

DeleteHealth(c) == HealthProbe(c, "d_health", "d_exists", TRUE)

\* a delete_index that does not look whether the index exists
DeleteExistsUnchecked(c) ==
    /\ call[c].pc = "d_exists"
    /\ call' = [call EXCEPT ![c] =
                  IF ~up THEN OnConnectionError(@, TRUE) ELSE [@ EXCEPT !.pc = "d_delete"]]
    /\ UNCHANGED <<up, template, indices, budget>>

DeleteExists(c) ==
    /\ call[c].pc = "d_exists"
    /\ call' = [call EXCEPT ![c] =
                  IF ~up THEN OnConnectionError(@, TRUE)
                  ELSE IF EsExists(Scoped(@))
                  THEN [@ EXCEPT !.pc = "d_delete", !.logs = @ \cup {"Deleting index"}]
                  ELSE Return(@, None)]
    /\ UNCHANGED <<up, template, indices, budget>>

\* indices.delete raises NotFoundError for an index that is gone by now; it
\* is not caught
DeleteDelete(c) ==
    /\ call[c].pc = "d_delete"
    /\ IF ~up
       THEN /\ indices' = indices
            /\ call' = [call EXCEPT ![c] = OnConnectionError(@, TRUE)]
       ELSE IF ~EsExists(Scoped(call[c]))
       THEN /\ indices' = indices
            /\ call' = [call EXCEPT ![c] = Raise([@ EXCEPT !.issued = @ \cup {"delete"}],
                                                 "NotFoundError")]
       ELSE /\ indices' = EsDelete(Scoped(call[c]))
            /\ call' = [call EXCEPT ![c] = Return([@ EXCEPT !.issued = @ \cup {"delete"}], None)]
    /\ UNCHANGED <<up, template, budget>>

----------------------------------------------------------------------------
(* load_index *)

load_index(c, app, index, docs, mapping) ==
    Begin(c, "load_index", app, index, mapping, docs, "l_health")

LoadHealth(c) == HealthProbe(c, "l_health", "l_exists", TRUE)

\* a load_index that does not create a missing index
LoadExistsNoCreate(c) ==
    /\ call[c].pc = "l_exists"
    /\ call' = [call EXCEPT ![c] =
                  IF ~up THEN OnConnectionError(@, TRUE) ELSE [@ EXCEPT !.pc = "l_bulk"]]
    /\ UNCHANGED <<up, template, indices, budget>>

LoadExists(c) ==
    /\ call[c].pc = "l_exists"
    /\ call' = [call EXCEPT ![c] =
                  IF ~up THEN OnConnectionError(@, TRUE)
                  ELSE IF EsExists(Scoped(@))
                  THEN [@ EXCEPT !.pc = "l_bulk", !.logs = @ \cup {"Loading index"}]
                  ELSE [@ EXCEPT !.pc = "c_health"]]
    /\ UNCHANGED <<up, template, indices, budget>>

\* a chunk that is the whole rest of docs
NextChunkUnbounded(docs, consumed) == SubSeq(docs, consumed + 1, Len(docs))

\* the next chunk streaming_bulk takes from docs: at most chunk_size documents
\* a stream that starts over from the first document for every chunk
NextChunkRestarting(docs, consumed) == SubSeq(docs, 1, Min(CHUNK_SIZE, Len(docs)))

NextChunk(docs, consumed) ==
    SubSeq(docs, consumed + 1, Min(consumed + CHUNK_SIZE, Len(docs)))

\* a load_index that drops a chunk it cannot send and goes on
LoadSubmitSwallowing(c) ==
    /\ call[c].pc = "l_bulk"
    /\ call[c].consumed < Len(call[c].docs)
    /\ LET chunk == NextChunk(call[c].docs, call[c].consumed)
       IN  IF up
           THEN /\ indices' = EsBulk(Scoped(call[c]), chunk)
                /\ call' = [call EXCEPT ![c] =
                              [@ EXCEPT !.pc = "l_result",
                                        !.consumed = @ + Len(chunk),
                                        !.sizes = Append(@, Len(chunk)),
                                        !.issued = @ \cup {"bulk"},
                                        !.pending = BulkResults(chunk)]]
           ELSE /\ indices' = indices
                /\ call' = [call EXCEPT ![c] =
                              [@ EXCEPT !.consumed = @ + Len(chunk), !.failedAt = "l_bulk"]]
    /\ UNCHANGED <<up, template, budget>>

\* streaming_bulk takes the next chunk from docs and sends it as one bulk request
LoadSubmit(c) ==
    /\ call[c].pc = "l_bulk"
    /\ call[c].consumed < Len(call[c].docs)
    /\ LET chunk == NextChunk(call[c].docs, call[c].consumed)
       IN  IF up
           THEN /\ indices' = EsBulk(Scoped(call[c]), chunk)
                /\ call' = [call EXCEPT ![c] =
                              [@ EXCEPT !.pc = "l_result",
                                        !.consumed = @ + Len(chunk),
                                        !.sizes = Append(@, Len(chunk)),
                                        !.issued = @ \cup {"bulk"},
                                        !.pending = BulkResults(chunk)]]
           ELSE /\ indices' = indices
                /\ call' = [call EXCEPT ![c] =
                              OnConnectionError([@ EXCEPT !.consumed = @ + Len(chunk)], TRUE)]
    /\ UNCHANGED <<up, template, budget>>

\* a counter that counts every result
CountAfterAlways(okay, count) == count + 1

\* a counter that counts the failed results
CountAfterInverted(okay, count) == IF okay THEN count ELSE count + 1

\* the success counter after one result
CountAfter(okay, count) == IF okay THEN count + 1 ELSE count

\* the failure log lines after one result
FailuresAfter(okay, nfail) == IF okay THEN nfail ELSE nfail + 1

\* a loop that gives up on the first failed document
AfterResultRaising(r, res) ==
    IF res.okay
    THEN [r EXCEPT !.count = @ + 1, !.processed = @ + 1, !.pending = Tail(@),
                   !.pc = IF Tail(r.pending) = <<>> THEN "l_bulk" ELSE "l_result"]
    ELSE Raise([r EXCEPT !.nfail = @ + 1, !.processed = @ + 1], "BulkIndexError")

\* the call after the body of the for loop has run on the pair res: a failed
\* document is logged, a successful one counted; the loop goes on either way
AfterResult(r, res) ==
    [r EXCEPT !.count = CountAfter(res.okay, @),
              !.nfail = FailuresAfter(res.okay, @),
              !.processed = @ + 1,
              !.pending = Tail(@),
              !.pc = IF Tail(r.pending) = <<>> THEN "l_bulk" ELSE "l_result"]

\* one turn of the for loop: the next (okay, result) pair of the chunk
LoadResult(c) ==
    /\ call[c].pc = "l_result"
    /\ call' = [call EXCEPT ![c] = AfterResult(@, Head(@.pending))]
    /\ UNCHANGED <<up, template, indices, budget>>

\* a load_index that ends with `return count`
LoadReturnsCount(count) == IntVal(count)

\* what load_index hands back once the stream is exhausted: the function
\* ends after logging the count, without a return statement
LoadReturnValue(count) == None

\* docs is exhausted: log 'Loaded %s document%s' and return
LoadFinish(c) ==
    /\ call[c].pc = "l_bulk"
    /\ call[c].consumed = Len(call[c].docs)
    /\ call' = [call EXCEPT ![c] =
                  Return([@ EXCEPT !.logged = call[c].count], LoadReturnValue(call[c].count))]
    /\ UNCHANGED <<up, template, indices, budget>>

----------------------------------------------------------------------------
(* The cluster becomes unreachable, or reachable again *)

ClusterDown == up /\ up' = FALSE /\ UNCHANGED <<template, indices, call, budget>>

ClusterUp == ~up /\ up' = TRUE /\ UNCHANGED <<template, indices, call, budget>>

----------------------------------------------------------------------------
(* Specifications: one caller, who makes a bounded number of calls.        *)
(* Spec: the four administration helpers on any of the (app, index)        *)
(* pairs, on a cluster that starts with any set of indices.  SpecLoad:     *)
(* load_index and the administration helpers on one (app, index) pair,     *)
(* whose index may exist at the start, with document sequences up to and   *)
(* beyond one chunk.                                                       *)

AdminNext(apps, names) ==
    \/ \E c \in Callers, app \in apps, index \in names : does_index_exist(c, app, index)
    \/ \E c \in Callers : ExistHealth(c)
    \/ \E c \in Callers : ExistQuery(c)
    \/ \E c \in Callers, app \in apps, index \in names : get_field_names(c, app, index)
    \/ \E c \in Callers : FieldsHealth(c)
    \/ \E c \in Callers : FieldsGet(c)
    \/ \E c \in Callers, app \in apps, index \in names, m \in Mappings :
          create_index(c, app, index, m)
    \/ \E c \in Callers : CreateHealth(c)
    \/ \E c \in Callers : CreateExists(c)
    \/ \E c \in Callers : CreateExistsTemplate(c)
    \/ \E c \in Callers : CreatePutTemplate(c)
    \/ \E c \in Callers : CreateCreate(c)
    \/ \E c \in Callers, app \in apps, index \in names : delete_index(c, app, index)
    \/ \E c \in Callers : DeleteHealth(c)
    \/ \E c \in Callers : DeleteExists(c)
    \/ \E c \in Callers : DeleteDelete(c)
    \/ ClusterDown
    \/ ClusterUp

LoadNext(apps, names, docInputs) ==
    \/ \E c \in Callers, app \in apps, index \in names, d \in docInputs, m \in Mappings :
          load_index(c, app, index, d, m)
    \/ \E c \in Callers : LoadHealth(c)
    \/ \E c \in Callers : LoadExists(c)
    \/ \E c \in Callers : LoadSubmit(c)
    \/ \E c \in Callers : LoadResult(c)
    \/ \E c \in Callers : LoadFinish(c)

OneCaller == [c \in Callers |-> IF c = 1 THEN NoCall ELSE [NoCall EXCEPT !.pc = "off"]]

\* an index as create_index leaves it
FreshIndices == {Index(m, {}) : m \in Mappings}

Init ==
    /\ up \in BOOLEAN
    /\ template \in BOOLEAN
    /\ indices \in [ScopedNames -> {NoIndex} \cup FreshIndices]
    /\ call = OneCaller
    /\ budget = MaxCalls

Next == AdminNext(Apps, IndexNames)

Spec == Init /\ [][Next]_vars

LoadApp == <<"a">>
LoadIndex == <<"x">>

\* the index of (LoadApp, LoadIndex) exists or not; the other indices all
\* exist or all do not
InitLoad ==
    /\ up \in BOOLEAN
    /\ template \in BOOLEAN
    /\ \E ix \in {NoIndex} \cup FreshIndices, other \in {NoIndex, Index(Mapping({"f1"}), {})} :
          indices = [s \in ScopedNames |->
                       IF s = get_scoped_index_name(LoadApp, LoadIndex) THEN ix ELSE other]
    /\ call = OneCaller
    /\ budget = MaxLoadCalls

NextLoad == AdminNext({LoadApp}, {LoadIndex}) \/ LoadNext({LoadApp}, {LoadIndex}, LoadDocs)

SpecLoad == InitLoad /\ [][NextLoad]_vars

----------------------------------------------------------------------------
(* SpecNames: get_scoped_index_name as a function.  Two callers each hold   *)
(* an (app, index) pair of names over a letter and the separator and       *)
(* compute its scoped name.                                                *)

NameChars == {"a", "$"}

\* the names of at most n characters
Names(n) == UNION {[1..k -> NameChars] : k \in 0..n}

NameVal(s) == [tag |-> "name", name |-> s]

\* the value get_scoped_index_name returns for the arguments of call r
ScopedName(r) == get_scoped_index_name(r.app, r.index)

ScopeName(c) ==
    /\ call[c].pc = "n_call"
    /\ call' = [call EXCEPT ![c] = Return(@, NameVal(ScopedName(@)))]
    /\ UNCHANGED <<up, template, indices, budget>>

InitNames ==
    /\ up = TRUE
    /\ template = FALSE
    /\ indices = [s \in ScopedNames |-> NoIndex]
    /\ call \in [Callers -> {[NoCall EXCEPT !.op = "get_scoped_index_name", !.app = a,
                                              !.index = i, !.pc = "n_call"] :
                                 a \in Names(MaxNameLen), i \in Names(MaxNameLen)}]
    /\ budget = 0

NextNames == \E c \in Callers : ScopeName(c)

SpecNames == InitNames /\ [][NextNames]_vars

----------------------------------------------------------------------------
(* SpecClient: create_es_client as a function of its three arguments and   *)
(* the three environment variables, each absent, empty or set.             *)

\* the truth value Python gives None or a string
Truthy(v) == v.some /\ v.s # ""

\* Python's `a or b`
Or(a, b) == IF Truthy(a) THEN a ELSE b

\* basic authentication whenever a user is set
HttpAuthUserOnly(es_user, es_pass) ==
    IF Truthy(es_user) THEN [tag |-> "auth", user |-> es_user, pass |-> es_pass] ELSE None

\* (es_user, es_pass) if es_user and es_pass else None
HttpAuth(es_user, es_pass) ==
    IF Truthy(es_user) /\ Truthy(es_pass)
    THEN [tag |-> "auth", user |-> es_user, pass |-> es_pass]
    ELSE None

\* Elasticsearch(es_host, http_auth=http_auth)
Elasticsearch(es_host, http_auth) ==
    [tag |-> "client", host |-> es_host, http_auth |-> http_auth]

create_es_client(es_host, es_user, es_pass, environ) ==
    LET host == Or(es_host, environ.host)
        user == Or(es_user, environ.user)
        pass == Or(es_pass, environ.pass)
    IN  Elasticsearch(host, HttpAuth(user, pass))

CreateEsClient(c) ==
    /\ call[c].pc = "k_call"
    /\ call' = [call EXCEPT ![c] =
                  Return(@, create_es_client(@.args.host, @.args.user, @.args.pass,
                                             @.environ))]
    /\ UNCHANGED <<up, template, indices, budget>>

\* what an argument or an environment variable named n can hold
Given(n) == {Absent, Str(""), Str(n)}

ClientArgs ==
    [host : Given("host_arg"), user : Given("user_arg"), pass : Given("pass_arg")]

ClientEnvirons ==
    [host : Given("host_env"), user : Given("user_env"), pass : Given("pass_env")]

InitClient ==
    /\ up = TRUE
    /\ template = FALSE
    /\ indices = [s \in ScopedNames |-> NoIndex]
    /\ \E a \in ClientArgs, e \in ClientEnvirons :
          call = [OneCaller EXCEPT ![1] = [NoCall EXCEPT !.op = "create_es_client",
                                                         !.args = a, !.environ = e,
                                                         !.pc = "k_call"]]
    /\ budget = 0

NextClient == \E c \in Callers : CreateEsClient(c)

SpecClient == InitClient /\ [][NextClient]_vars

----------------------------------------------------------------------------
(* SpecSeq: one caller makes create_index and load_index calls one after   *)
(* another on a cluster that stays reachable and starts without indices    *)
(* and without the default template.                                       *)

SeqDocs == ShortDocs(1)

InitSeq ==
    /\ up = TRUE
    /\ template = FALSE
    /\ indices = [s \in ScopedNames |-> NoIndex]
    /\ call = OneCaller
    /\ budget = MaxSeqCalls

NextSeq ==
    \/ \E c \in Callers, app \in Apps, index \in IndexNames, m \in Mappings :
          create_index(c, app, index, m)
    \/ \E c \in Callers : CreateHealth(c)
    \/ \E c \in Callers : CreateExists(c)
    \/ \E c \in Callers : CreateExistsTemplate(c)
    \/ \E c \in Callers : CreatePutTemplate(c)
    \/ \E c \in Callers : CreateCreate(c)
    \/ LoadNext(Apps, IndexNames, SeqDocs)

SpecSeq == InitSeq /\ [][NextSeq]_vars

----------------------------------------------------------------------------
(* SpecRace: two callers run create_index at the same time, on the same or *)
(* on different (app, index) pairs, on a cluster that starts without       *)
(* indices and without the default template.  The steps of the two calls   *)
(* interleave in any order.                                                *)

TwoCallers == [c \in Callers |-> NoCall]

InitRace ==
    /\ up = TRUE
    /\ template = FALSE
    /\ indices = [s \in ScopedNames |-> NoIndex]
    /\ call = TwoCallers
    /\ budget = MaxRaceCalls

NextRace ==
    \/ \E c \in Callers, app \in Apps, index \in IndexNames, m \in Mappings :
          create_index(c, app, index, m)
    \/ \E c \in Callers : CreateHealth(c)
    \/ \E c \in Callers : CreateExists(c)
    \/ \E c \in Callers : CreateExistsTemplate(c)
    \/ \E c \in Callers : CreatePutTemplate(c)
    \/ \E c \in Callers : CreateCreate(c)
    \/ ClusterDown
    \/ ClusterUp

SpecRace == InitRace /\ [][NextRace]_vars

----------------------------------------------------------------------------
(* SpecLoadRace: two callers run load_index and delete_index at the same   *)
(* time on the (app, index) pair of SpecLoad, whose index may exist at the *)
(* start, on a cluster that stays reachable.  The steps of the two calls   *)
(* interleave in any order.                                                *)

RaceDocs == ShortDocs(1)

InitLoadRace ==
    /\ up = TRUE
    /\ template \in BOOLEAN
    /\ \E ix \in {NoIndex} \cup FreshIndices :
          indices = [s \in ScopedNames |->
                       IF s = get_scoped_index_name(LoadApp, LoadIndex) THEN ix ELSE NoIndex]
    /\ call = TwoCallers
    /\ budget = MaxRaceCalls

NextLoadRace ==
    \/ LoadNext({LoadApp}, {LoadIndex}, RaceDocs)
    \/ \E c \in Callers : CreateHealth(c)
    \/ \E c \in Callers : CreateExists(c)
    \/ \E c \in Callers : CreateExistsTemplate(c)
    \/ \E c \in Callers : CreatePutTemplate(c)
    \/ \E c \in Callers : CreateCreate(c)
    \/ \E c \in Callers : delete_index(c, LoadApp, LoadIndex)
    \/ \E c \in Callers : DeleteHealth(c)
    \/ \E c \in Callers : DeleteExists(c)
    \/ \E c \in Callers : DeleteDelete(c)

SpecLoadRace == InitLoadRace /\ [][NextLoadRace]_vars

----------------------------------------------------------------------------
(* Properties *)

Done(c) == call[c].pc = "done"

\* the call returned to its caller, no exception
Returned(c, op) == call[c].op = op /\ Done(c) /\ call[c].outcome = "returned"

\* the scoped index of the call existed when the call started
ExistedBefore(c) == call[c].pre.indices[Scoped(call[c])].exists

RemoteUnchanged(c) == Snapshot = call[c].pre

\* the positions of docs the engine rejects, and their number K
Rejected(docs) == {i \in 1..Len(docs) : ~EsAccepts(docs[i])}
K(docs) == Cardinality(Rejected(docs))

\* the identifiers of the documents of docs the engine accepts
AcceptedIds(docs) == {docs[i].id : i \in (1..Len(docs)) \ Rejected(docs)}

HealthPcs == {"e_health", "g_health", "c_health", "d_health", "l_health"}

C3_ProbeFailureChangesNothing ==
    /\ [][\A c \in Callers :
            (call[c].pc \in HealthPcs /\ ~up /\ call'[c] # call[c]) =>
                /\ call'[c].pc = "done"
                /\ call'[c].outcome = "KnowledgeBaseConnectionError"
                /\ remote' = remote]_vars
    /\ [](\A c \in Callers :
            call[c].failedAt \in HealthPcs =>
                /\ Done(c)
                /\ call[c].outcome = "KnowledgeBaseConnectionError"
                /\ call[c].issued = {}
                /\ RemoteUnchanged(c))

\* load_index of documents into an existing index, stopped by its health probe
C3_Witness ==
    \E c \in Callers :
        /\ call[c].op = "load_index" /\ call[c].failedAt = "l_health"
        /\ call[c].docs # <<>> /\ ExistedBefore(c)
        /\ call[c].outcome = "KnowledgeBaseConnectionError"

\* C4: create_index on a scoped index that exists sends neither a template
\* creation nor an index creation, leaves the cluster (the mapping of the
\* index included) as it was, and raises nothing unless the cluster cannot
\* be reached.
C4_CreateExistingIsNoOp ==
    \A c \in Callers :
        call[c].op = "create_index" /\ ExistedBefore(c) =>
            /\ call[c].issued = {}
            /\ RemoteUnchanged(c)
            /\ Done(c) => call[c].outcome \in {"returned", "KnowledgeBaseConnectionError"}
            /\ Done(c) /\ call[c].failedAt = "none" => call[c].outcome = "returned"

\* a second creation, with another mapping than the index has, that returned
C4_Witness ==
    \E c \in Callers :
        /\ Returned(c, "create_index") /\ ExistedBefore(c)
        /\ call[c].mapping # indices[Scoped(call[c])].mapping
        /\ "already exists" \in call[c].logs

\* C5: with one caller, a does_index_exist that returns right after a
\* create_index that returned, on the same (app, index) and on an index that
\* did not exist, returns true, and the index has the mapping that
\* create_index was given.
C5_CreateThenExists ==
    \A c \in Callers :
        (/\ Returned(c, "does_index_exist")
         /\ call[c].after.op = "create_index"
         /\ ~call[c].after.existed) =>
            /\ call[c].retval = Bool(TRUE)
            /\ indices[Scoped(call[c])].exists
            /\ indices[Scoped(call[c])].mapping = call[c].after.mapping

C5_Witness ==
    \E c \in Callers :
        /\ Returned(c, "does_index_exist")
        /\ call[c].after.op = "create_index"
        /\ ~call[c].after.existed
        /\ call[c].retval = Bool(TRUE)

\* C6: with one caller, a delete_index that returns on an index that existed
\* leaves that index absent and every other index as it was, and a
\* does_index_exist that returns right after it, on the same (app, index),
\* returns false.
C6_DeleteThenExists ==
    \A c \in Callers :
        /\ Returned(c, "delete_index") /\ ExistedBefore(c) =>
              /\ ~indices[Scoped(call[c])].exists
              /\ \A t \in ScopedNames \ {Scoped(call[c])} : indices[t] = call[c].pre.indices[t]
        /\ (/\ Returned(c, "does_index_exist")
            /\ call[c].after.op = "delete_index"
            /\ call[c].after.existed) =>
              /\ call[c].retval = Bool(FALSE)
              /\ ~indices[Scoped(call[c])].exists

\* false is returned after a deletion while an index of the same app and an
\* index of the same logical name are still there
C6_Witness ==
    \E c \in Callers :
        /\ Returned(c, "does_index_exist")
        /\ call[c].after.op = "delete_index"
        /\ call[c].after.existed
        /\ call[c].retval = Bool(FALSE)
        /\ \E t, u \in ScopedNames \ {Scoped(call[c])} :
              /\ t # u
              /\ indices[t].exists /\ indices[u].exists
              /\ t = get_scoped_index_name(call[c].app, <<"y">>)
              /\ u = get_scoped_index_name(<<"b">>, call[c].index)

\* C7: delete_index on a scoped index that does not exist sends no delete
\* request, leaves the cluster as it was, and raises nothing unless the
\* cluster cannot be reached.
C7_DeleteMissingIsNoOp ==
    \A c \in Callers :
        call[c].op = "delete_index" /\ ~ExistedBefore(c) =>
            /\ call[c].issued = {}
            /\ RemoteUnchanged(c)
            /\ Done(c) => call[c].outcome \in {"returned", "KnowledgeBaseConnectionError"}
            /\ Done(c) /\ call[c].failedAt = "none" => call[c].outcome = "returned"

\* returned, on a cluster that has other indices
C7_Witness ==
    \E c \in Callers :
        /\ Returned(c, "delete_index") /\ ~ExistedBefore(c)
        /\ \E t \in ScopedNames : indices[t].exists

\* C8: load_index on a scoped index that does not exist creates it before it
\* sends documents.  A chunk is sent only to an index that exists, created
\* by this call with the mapping given to load_index; and when the load
\* returns, the template exists (put by this call if it was absent), the
\* index exists with that mapping and holds exactly the accepted documents.
C8_LoadCreatesIndexFirst ==
    /\ [][\A c \in Callers :
            (/\ call[c].op = "load_index" /\ ~ExistedBefore(c)
             /\ Len(call'[c].sizes) > Len(call[c].sizes)) =>
                /\ "create" \in call[c].issued
                /\ indices[Scoped(call[c])].exists
                /\ indices[Scoped(call[c])].mapping = call[c].mapping
                /\ call[c].sizes = <<>> => indices[Scoped(call[c])].docs = {}]_vars
    /\ [](\A c \in Callers :
            Returned(c, "load_index") /\ ~ExistedBefore(c) =>
                /\ "create" \in call[c].issued
                /\ template
                /\ ~call[c].pre.template => "put_template" \in call[c].issued
                /\ indices[Scoped(call[c])] =
                      Index(call[c].mapping, AcceptedIds(call[c].docs)))

\* neither index nor template at the start, and documents loaded
C8_Witness ==
    \E c \in Callers :
        /\ Returned(c, "load_index") /\ ~ExistedBefore(c)
        /\ ~call[c].pre.template
        /\ call[c].sizes # <<>>
        /\ indices[Scoped(call[c])].docs # {}

CeilDiv(n, d) == (n + d - 1) \div d

\* the documents of chunk k that the engine accepts
ChunkSuccesses(docs, k) ==
    Cardinality({i \in ((k - 1) * CHUNK_SIZE + 1)..Min(k * CHUNK_SIZE, Len(docs)) :
                    EsAccepts(docs[i])})

RECURSIVE SumSuccesses(_, _)
SumSuccesses(docs, k) == IF k = 0 THEN 0 ELSE ChunkSuccesses(docs, k) + SumSuccesses(docs, k - 1)

\* C10: load_index sends the documents in chunks of at most 50: chunk k holds
\* the documents from 50(k-1)+1 to min(50k, N), so a load of N documents that
\* returns has sent ceil(N/50) chunks (50 then 1 for 51 documents), has
\* handled every result of every chunk, and its count is the sum of the
\* successes of the chunks.
C10_ChunksOfFifty ==
    \A c \in Callers :
        call[c].op = "load_index" =>
            /\ Len(call[c].pending) <= CHUNK_SIZE
            /\ \A k \in 1..Len(call[c].sizes) :
                  call[c].sizes[k] = Min(CHUNK_SIZE, Len(call[c].docs) - (k - 1) * CHUNK_SIZE)
            /\ call[c].failedAt # "l_bulk" =>
                  call[c].consumed = Min(Len(call[c].docs), Len(call[c].sizes) * CHUNK_SIZE)
            /\ call[c].processed + Len(call[c].pending) =
                  Min(Len(call[c].docs), Len(call[c].sizes) * CHUNK_SIZE)
            /\ Returned(c, "load_index") =>
                  /\ Len(call[c].sizes) = CeilDiv(Len(call[c].docs), CHUNK_SIZE)
                  /\ call[c].processed = Len(call[c].docs)
                  /\ call[c].count = SumSuccesses(call[c].docs, Len(call[c].sizes))

\* one document more than a chunk: two chunks, the second of one document,
\* with a rejected document in each
C10_Witness ==
    \E c \in Callers :
        /\ Returned(c, "load_index")
        /\ Len(call[c].docs) = CHUNK_SIZE + 1
        /\ call[c].sizes = <<CHUNK_SIZE, 1>>
        /\ Rejected(call[c].docs) = {1, CHUNK_SIZE + 1}
        /\ call[c].count = CHUNK_SIZE - 1

\* the name has no separator in it
NoSeparator(name) == \A k \in 1..Len(name) : name[k] # "$"

\* C11: the scoped name is the app name, then '$', then the index name; the
\* same pair gives the same scoped name; and two pairs whose names hold no
\* '$' and that give the same scoped name are the same pair.
C11_ScopedNameInjective ==
    \A c, d \in Callers :
        Returned(c, "get_scoped_index_name") /\ Returned(d, "get_scoped_index_name") =>
            LET n == call[c].retval.name
                la == Len(call[c].app)
            IN  /\ Len(n) = la + 1 + Len(call[c].index)
                /\ SubSeq(n, 1, la) = call[c].app
                /\ n[la + 1] = "$"
                /\ SubSeq(n, la + 2, Len(n)) = call[c].index
                /\ (call[c].app = call[d].app /\ call[c].index = call[d].index) =>
                      call[c].retval = call[d].retval
                /\ (/\ NoSeparator(call[c].app) /\ NoSeparator(call[c].index)
                    /\ NoSeparator(call[d].app) /\ NoSeparator(call[d].index)
                    /\ call[c].retval = call[d].retval) =>
                      (call[c].app = call[d].app /\ call[c].index = call[d].index)

\* two different pairs without separator, one name a prefix of the other,
\* get different scoped names
C11_Witness ==
    /\ Returned(1, "get_scoped_index_name") /\ Returned(2, "get_scoped_index_name")
    /\ call[1].app = <<"a">> /\ call[1].index = <<"a", "a">>
    /\ call[2].app = <<"a", "a">> /\ call[2].index = <<"a">>
    /\ call[1].retval # call[2].retval

\* call c is a finished create_index that sent indices.create
TriedCreate(c) ==
    call[c].op = "create_index" /\ Done(c) /\ "create" \in call[c].issued

\* C12: when two concurrent create_index calls on the same scoped index both
\* pass the existence check and both send indices.create, one returns and
\* the other ends with the engine's RequestError, which is neither success
\* nor KnowledgeBaseConnectionError; the index has the winner's mapping.
C12_DuplicateCreateSurfaces ==
    \A c, d \in Callers :
        (c # d /\ TriedCreate(c) /\ TriedCreate(d) /\ Scoped(call[c]) = Scoped(call[d])) =>
            \E w \in {c, d} :
                LET l == CHOOSE x \in {c, d} : x # w
                IN  /\ call[w].outcome = "returned"
                    /\ call[l].outcome = "RequestError"
                    /\ call[l].failedAt = "none" /\ ~call[l].hosts
                    /\ "Unable to connect" \notin call[l].logs
                    /\ indices[Scoped(call[w])] = Index(call[w].mapping, {})

\* both calls found the index missing, caller 2 creates it first and caller 1
\* loses with another mapping
C12_Witness ==
    /\ TriedCreate(1) /\ TriedCreate(2)
    /\ Scoped(call[1]) = Scoped(call[2])
    /\ ~ExistedBefore(1) /\ ~ExistedBefore(2)
    /\ call[1].mapping # call[2].mapping
    /\ call[1].outcome = "RequestError" /\ call[2].outcome = "returned"
    /\ indices[Scoped(call[2])].mapping = call[2].mapping

\* call c is a finished create_index that found the template missing, sent
\* put_template and met no connection failure
PutTemplate(c) ==
    /\ call[c].op = "create_index" /\ Done(c)
    /\ "put_template" \in call[c].issued
    /\ call[c].failedAt = "none"

\* C13: when two concurrent create_index calls for different (app, index)
\* pairs both find the template missing and both send put_template, both
\* calls return and each creates its own index with its own mapping.
C13_TemplateRaceHarmless ==
    \A c, d \in Callers :
        (c # d /\ PutTemplate(c) /\ PutTemplate(d) /\ Scoped(call[c]) # Scoped(call[d])) =>
            /\ call[c].outcome = "returned"
            /\ "create" \in call[c].issued
            /\ indices[Scoped(call[c])] = Index(call[c].mapping, {})
            /\ template

C13_Witness ==
    /\ PutTemplate(1) /\ PutTemplate(2)
    /\ Scoped(call[1]) # Scoped(call[2])
    /\ ~call[1].pre.template /\ ~call[2].pre.template
    /\ call[1].outcome = "returned" /\ call[2].outcome = "returned"
    /\ indices[Scoped(call[1])].exists /\ indices[Scoped(call[2])].exists

\* a string that is there and not empty
NonEmpty(v) == v.some /\ v.s # ""

\* the setting create_es_client is to use: the argument if not empty, else
\* what the environment holds, else nothing
Resolved(arg, env) == IF NonEmpty(arg) THEN arg ELSE IF env.some THEN env ELSE Absent

\* C14: the client gets the host resolved from argument and MM_ES_HOST, and
\* basic authentication with the resolved user and password exactly when
\* both are non-empty, none otherwise.
C14_ClientSettings ==
    \A c \in Callers :
        Returned(c, "create_es_client") =>
            LET a == call[c].args
                e == call[c].environ
                user == Resolved(a.user, e.user)
                pass == Resolved(a.pass, e.pass)
                client == call[c].retval
            IN  /\ client.host = Resolved(a.host, e.host)
                /\ IF NonEmpty(user) /\ NonEmpty(pass)
                   THEN client.http_auth = [tag |-> "auth", user |-> user, pass |-> pass]
                   ELSE client.http_auth = None

\* an empty user argument falls back to MM_ES_USERNAME, the password is
\* given as argument, the host is nowhere: authentication, no host
C14_Witness ==
    /\ Returned(1, "create_es_client")
    /\ call[1].args = [host |-> Absent, user |-> Str(""), pass |-> Str("pass_arg")]
    /\ call[1].environ = [host |-> Absent, user |-> Str("user_env"), pass |-> Str("pass_env")]
    /\ call[1].retval.host = Absent
    /\ call[1].retval.http_auth =
          [tag |-> "auth", user |-> Str("user_env"), pass |-> Str("pass_arg")]

\* C15: a chunk is sent only when every result of the chunks before it has
\* been handled, and holds the documents that follow them in docs, in their
\* order; each result handled is the result of the next document of docs,
\* counted if the engine took that document and logged as failed if not.
C15_ChunksInOrder ==
    [][\A c \in Callers :
          LET r == call[c]
              q == call'[c]
          IN  r.op = "load_index" =>
                /\ Len(q.sizes) = Len(r.sizes) + 1 =>
                      /\ r.pending = <<>>
                      /\ r.processed = r.consumed
                      /\ q.pending # <<>>
                      /\ q.consumed = r.consumed + Len(q.pending)
                      /\ \A k \in 1..Len(q.pending) :
                            /\ q.pending[k].id = r.docs[r.consumed + k].id
                            /\ q.pending[k].okay = EsAccepts(r.docs[r.consumed + k])
                /\ q.processed = r.processed + 1 =>
                      /\ Len(q.sizes) = Len(r.sizes)
                      /\ Head(r.pending).id = r.docs[q.processed].id
                      /\ q.pending = Tail(r.pending)
                      /\ IF EsAccepts(r.docs[q.processed])
                         THEN q.count = r.count + 1 /\ q.nfail = r.nfail
                         ELSE q.count = r.count /\ q.nfail = r.nfail + 1]_vars

\* a load of one document more than a chunk, the first of each chunk
\* rejected, has been through both chunks
C15_Witness ==
    /\ Returned(1, "load_index")
    /\ call[1].sizes = <<CHUNK_SIZE, 1>>
    /\ Rejected(call[1].docs) = {1, CHUNK_SIZE + 1}
    /\ call[1].processed = CHUNK_SIZE + 1
    /\ call[1].nfail = 2

\* the documents of the chunks sent so far
Sent(r) == CHUNK_SIZE * Len(r.sizes)

\* C16: a load_index whose bulk request for chunk k could not connect has
\* ended with KnowledgeBaseConnectionError carrying the hosts; the k - 1
\* chunks before it were sent and their results handled, chunk k was taken
\* from docs and nothing after it; no final count is logged, nothing is
\* returned; and the call does nothing more.
C16_FailureWhileSubmitting ==
    /\ [](\A c \in Callers :
            (call[c].op = "load_index" /\ call[c].failedAt = "l_bulk") =>
                /\ Done(c)
                /\ call[c].outcome = "KnowledgeBaseConnectionError"
                /\ call[c].hosts
                /\ call[c].logged = -1
                /\ call[c].retval = None
                /\ "Unable to connect" \in call[c].logs
                /\ call[c].processed = Sent(call[c])
                /\ call[c].consumed = Min(Sent(call[c]) + CHUNK_SIZE, Len(call[c].docs))
                /\ call[c].count + call[c].nfail = call[c].processed)
    /\ [][\A c \in Callers :
            (call[c].op = "load_index" /\ call[c].failedAt = "l_bulk") =>
                \/ call'[c] = call[c] /\ indices' = indices
                \/ budget' = budget - 1 /\ call'[c].pc # "done"]_vars

\* the first chunk went through, the second could not be sent
C16_Witness ==
    /\ call[1].op = "load_index" /\ call[1].failedAt = "l_bulk"
    /\ call[1].sizes = <<CHUNK_SIZE>>
    /\ Len(call[1].docs) = CHUNK_SIZE + 1
    /\ call[1].consumed = CHUNK_SIZE + 1
    /\ call[1].count = CHUNK_SIZE - 1
    /\ call[1].outcome = "KnowledgeBaseConnectionError"
    /\ Cardinality(indices[Scoped(call[1])].docs) = CHUNK_SIZE - 1

\* the step sends put_template for call c
PutsTemplate(c) ==
    "put_template" \in call'[c].issued /\ "put_template" \notin call[c].issued

\* C17: in a sequence of create_index and load_index calls on a reachable
\* cluster, put_template is sent only while the template is missing, by a
\* call that found its index missing and goes on to create it; the template
\* then exists and stays, so that put_template is sent at most once.
C17_TemplateCreatedOnce ==
    [][/\ \A c \in Callers :
            PutsTemplate(c) =>
                /\ ~template /\ template'
                /\ call[c].op \in {"create_index", "load_index"}
                /\ ~EsExists(Scoped(call[c]))
                /\ call'[c].pc = "c_create"
       /\ template' # template => \E c \in Callers : PutsTemplate(c)
       /\ template => template'
       /\ \A c \in Callers :
            (call[c].pc = "c_create" /\ call'[c].pc # "c_create") =>
                /\ template
                /\ indices'[Scoped(call[c])] = Index(call[c].mapping, {})]_vars

\* the second call, a load_index, creates its index and sends no
\* put_template: the first call has put the template
C17_Witness ==
    /\ budget = MaxSeqCalls - 2
    /\ Returned(1, "load_index")
    /\ call[1].pre.template
    /\ ~ExistedBefore(1)
    /\ call[1].issued = {"create", "bulk"}
    /\ \E s \in ScopedNames : s # Scoped(call[1]) /\ indices[s].exists

\* C18: get_field_names changes nothing in the cluster; when the cluster
\* answers, a call on a missing index ends with NotFoundError, which is not
\* KnowledgeBaseConnectionError and returns nothing, and a call on an index
\* returns the keys of the properties of its mapping.
C18_FieldNames ==
    \A c \in Callers :
        call[c].op = "get_field_names" =>
            /\ RemoteUnchanged(c)
            /\ call[c].issued = {}
            /\ (Done(c) /\ call[c].failedAt = "none") =>
                  IF ExistedBefore(c)
                  THEN /\ call[c].outcome = "returned"
                       /\ call[c].retval =
                             KeySet(call[c].pre.indices[Scoped(call[c])].mapping.properties)
                  ELSE /\ call[c].outcome = "NotFoundError"
                       /\ call[c].retval = None
                       /\ ~call[c].hosts
                       /\ "Unable to connect" \notin call[c].logs

\* a call on a missing index has ended with NotFoundError
C18_Witness ==
    /\ call[1].op = "get_field_names" /\ Done(1)
    /\ ~ExistedBefore(1)
    /\ call[1].outcome = "NotFoundError"
    /\ \E s \in ScopedNames : indices[s].exists

\* C19: all through a load_index call the success count and the failure
\* lines logged add up to the results handled, which are no more than the
\* documents taken from docs; the count never goes down and goes up by one
\* exactly in the steps that handle a successful result.
C19_CounterAccounting ==
    /\ [](\A c \in Callers :
            call[c].op = "load_index" =>
                /\ call[c].count >= 0 /\ call[c].nfail >= 0
                /\ call[c].count + call[c].nfail = call[c].processed
                /\ call[c].processed <= call[c].consumed
                /\ call[c].consumed <= Len(call[c].docs)
                /\ call[c].processed + Len(call[c].pending) <= call[c].consumed)
    /\ [][\A c \in Callers :
            (call[c].op = "load_index" /\ budget' = budget) =>
                /\ call'[c].count \in {call[c].count, call[c].count + 1}
                /\ call'[c].count = call[c].count + 1 <=>
                      /\ call[c].pc = "l_result" /\ Head(call[c].pending).okay
                      /\ call'[c].processed = call[c].processed + 1]_vars

\* in the middle of a chunk: one document loaded, one failed, one to go
C19_Witness ==
    /\ call[1].op = "load_index" /\ call[1].pc = "l_result"
    /\ call[1].count = 1 /\ call[1].nfail = 1
    /\ call[1].processed = 2 /\ call[1].consumed > 2
    /\ Len(call[1].pending) >= 1

\* C20: whenever load_index sends a chunk while other load_index and
\* delete_index calls on the same scoped index are running, the index exists
\* and has a mapping a caller supplied.
C20_BulkOnlyIntoExistingIndex ==
    [][\A c \in Callers :
          (call[c].op = "load_index" /\ Len(call'[c].sizes) = Len(call[c].sizes) + 1) =>
              /\ EsExists(Scoped(call[c]))
              /\ indices[Scoped(call[c])].mapping \in Mappings]_vars

====
